---- MODULE Spec2Model ----
(***************************************************************************)
(* The job-lifecycle engine of the repository: the task store, the         *)
(* execution queue, the executor loop, the provider's streaming drain, the *)
(* cooperative cancellation and the stream replay.                         *)
(*                                                                         *)
(* asyncio runs one coroutine at a time and switches only at an await that *)
(* really suspends, so one action of the model is the code that runs from  *)
(* one suspension point to the next.                                       *)
(***************************************************************************)
EXTENDS Integers, Sequences, FiniteSets, TLC

\* ------------------------------------------------------------------ bounds
\* Tasks created, well-formed data lines the backends deliver in all, and
\* lines one response carries that are skipped.
MaxTasks == 2
MaxEvents == 2
MaxSkipped == 1
\* stream_response generators opened, and tasks created while they read.
MaxReaders == 2
MaxStreamTasks == 1
\* generators opened while the web-socket manager is watched for liveness.
MaxWatchers == 1
\* the latest time the clock shows.
MaxClock == 2
\* ClientSessions one provider constructs, calls of its start, and calls of
\* its stop that are suspended at once.
MaxSessions == 3
MaxStarts == 3
MaxStops == 2
MaxMessages == 3

\* --------------------------------------------------------------- constants
\* len(reasoning_steps) of EnhancedTaskManager._execute_task
NumReasoningSteps == 8

None == "None"
\* An absent text and an absent output, comparable with the present ones.
NoText == <<None>>
NoOutput == [role |-> None, text |-> NoText]

\* Which manager class was constructed: BackgroundTaskManager, or its
\* subclass EnhancedTaskManager that broadcasts to web sockets.
Managers == {"base", "ws"}

\* TaskStatus
QUEUED == "queued"
IN_PROGRESS == "in_progress"
COMPLETED == "completed"
FAILED == "failed"
CANCELLED == "cancelled"
TaskStatus == {QUEUED, IN_PROGRESS, COMPLETED, FAILED, CANCELLED}
Terminal == {COMPLETED, FAILED, CANCELLED}

\* The parsed JSON of a well-formed data line: the fields the provider reads.
\* A text is the sequence of its characters.
DataSet ==
    { [id |-> "gen", content |-> <<"h", "i">>],
      [id |-> None, content |-> <<"!">>],
      [id |-> None, content |-> NoText] }

\* What the backend can deliver next on an open response.
LineKinds == {"event", "skip", "bad", "done", "eof", "error"}

\* The lines that do not parse: "bad" is no JSON text, "garbled" is no UTF-8
\* text or a JSON value that is no object.
UnparsedKinds == {"bad", "garbled"}

\* An optional number: <<>> is an absent key, <<n>> the key with value n.
Opt(n) == {<<>>, <<n>>}

\* opt.get(default)
Get(opt, default) == IF opt = <<>> THEN default ELSE opt[1]

\* stats['usage'] of a stats payload: the key is absent, null, or an object
\* with the keys prompt_tokens, reasoning_tokens and
\* completion_tokens_details.reasoning_tokens.
AbsentUsage ==
    [ kind |-> "absent", prompt_tokens |-> <<>>, reasoning_tokens |-> <<>>,
      details_reasoning_tokens |-> <<>> ]
NullUsage == [AbsentUsage EXCEPT !.kind = "null"]
UsageObjects ==
    [ kind : {"object"}, prompt_tokens : Opt(13), reasoning_tokens : Opt(3),
      details_reasoning_tokens : Opt(5) ]

\* The JSON objects get_generation_stats can return: the keys the usage
\* extraction reads. native_reasoning_tokens is
\* native_tokens_details.reasoning_tokens and native_details_reasoning_tokens
\* is native_tokens_details.completion_tokens_details.reasoning_tokens.
StatsPayloads ==
    [ tokens_prompt : Opt(2),
      tokens_completion : {<<>>},
      total_cost : {<<>>},
      usage : {AbsentUsage, NullUsage} \cup UsageObjects,
      native_reasoning_tokens : Opt(11),
      native_details_reasoning_tokens : Opt(37),
      reasoning_tokens : Opt(41) ]

\* The empty JSON object.
EmptyStats ==
    [ tokens_prompt |-> <<>>, tokens_completion |-> <<>>, total_cost |-> <<>>,
      usage |-> AbsentUsage, native_reasoning_tokens |-> <<>>,
      native_details_reasoning_tokens |-> <<>>, reasoning_tokens |-> <<>> ]

\* What get_generation_stats returns where the payload is not looked into:
\* None (<<>>), a payload with its usage, or one whose usage is null.
StatsOutcomes ==
    { <<>>,
      <<[EmptyStats EXCEPT !.tokens_prompt = <<2>>,
                           !.usage = [AbsentUsage EXCEPT !.kind = "object",
                                                         !.reasoning_tokens = <<3>>]]>>,
      <<[EmptyStats EXCEPT !.usage = NullUsage]>> }

\* The starting_after arguments of stream_response: <<>> is None, <<n>> is n.
StartingAfter == {<<>>, <<0>>, <<1>>}

\* ProviderType: the members _initialize_providers can configure.
OPENROUTER == "openrouter"
OPENAI == "openai"
ANTHROPIC == "anthropic"
ProviderTypes == {OPENROUTER, OPENAI, ANTHROPIC}

\* A model name is the sequence of its segments between the '/'.
\* openrouter_models, openai_models and anthropic_models of _build_model_map:
OpenRouterModels ==
    { <<"openai", "o3">>, <<"openai", "o3-pro">>, <<"openai", "o3-mini">>,
      <<"openai", "o1">>, <<"openai", "o1-mini">>, <<"openai", "o1-preview">>,
      <<"openai", "gpt-4o">>, <<"openai", "gpt-4o-mini">>, <<"openai", "gpt-4-turbo">>,
      <<"openai", "gpt-3.5-turbo">>,
      <<"anthropic", "claude-3.5-sonnet">>, <<"anthropic", "claude-3.5-haiku">>,
      <<"anthropic", "claude-3-opus">>, <<"anthropic", "claude-3-sonnet">>,
      <<"anthropic", "claude-3-haiku">>,
      <<"google", "gemini-pro-1.5">>, <<"google", "gemini-flash-1.5">>,
      <<"xai", "grok-beta">>, <<"xai", "grok-2-1212">>,
      <<"meta-llama", "llama-3.2-90b-vision-instruct">>,
      <<"microsoft", "wizardlm-2-8x22b">>,
      <<"mistralai", "mistral-large">> }
OpenAIModels ==
    { "o3", "o3-pro", "o3-mini", "o1", "o1-mini", "o1-preview",
      "gpt-4o", "gpt-4o-mini", "gpt-4-turbo", "gpt-3.5-turbo" }
AnthropicModels ==
    { "claude-3-5-sonnet-20241022", "claude-3-5-haiku-20241022",
      "claude-3-opus-20240229", "claude-3-sonnet-20240229", "claude-3-haiku-20240307" }

\* model.split('-20')[0] on the names of anthropic_models
SimpleName(model) ==
    CASE model = "claude-3-5-sonnet-20241022" -> "claude-3-5-sonnet"
      [] model = "claude-3-5-haiku-20241022" -> "claude-3-5-haiku"
      [] model = "claude-3-opus-20240229" -> "claude-3-opus"
      [] model = "claude-3-sonnet-20240229" -> "claude-3-sonnet"
      [] model = "claude-3-haiku-20240307" -> "claude-3-haiku"

\* self._model_to_provider_map.get(name) after _build_model_map with the
\* providers P configured. The three loops assign in turn, so a later loop
\* wins over an earlier one.
ModelToProviderMap(P, name) ==
    IF ANTHROPIC \in P /\ \E m \in AnthropicModels : name = <<m>>
    THEN ANTHROPIC
    ELSE IF ANTHROPIC \notin P
            /\ \E m \in AnthropicModels : name = <<"anthropic", SimpleName(m)>>
    THEN OPENROUTER
    ELSE IF OPENAI \in P /\ \E m \in OpenAIModels : name = <<m>>
    THEN OPENAI
    ELSE IF OPENAI \notin P /\ \E m \in OpenAIModels : name = <<"openai", m>>
    THEN OPENROUTER
    ELSE IF name \in OpenRouterModels
    THEN OPENROUTER
    ELSE None

\* The prefixes get_provider_for_model tries, in its order.
Prefixes == <<"openai", "anthropic", "google", "xai">>

\* The entries found by prepending a prefix whose provider is configured.
PrefixHits(P, model) ==
    { i \in 1..Len(Prefixes) :
        ModelToProviderMap(P, <<Prefixes[i]>> \o model) \in P }

\* Mutant: the fallback is returned whether or not it is configured.
get_provider_for_model_unchecked(P, model) ==
    IF ModelToProviderMap(P, model) \in P
    THEN ModelToProviderMap(P, model)
    ELSE IF PrefixHits(P, model) # {}
    THEN ModelToProviderMap(P, <<Prefixes[CHOOSE i \in PrefixHits(P, model) :
                                    \A j \in PrefixHits(P, model) : i <= j]>> \o model)
    ELSE OPENROUTER

\* get_provider_for_model(model) with the providers P configured: the type
\* of the provider returned, or None.
get_provider_for_model(P, model) ==
    IF ModelToProviderMap(P, model) \in P
    THEN ModelToProviderMap(P, model)
    ELSE IF PrefixHits(P, model) # {}
    THEN ModelToProviderMap(P, <<Prefixes[CHOOSE i \in PrefixHits(P, model) :
                                    \A j \in PrefixHits(P, model) : i <= j]>> \o model)
    ELSE IF OPENROUTER \in P THEN OPENROUTER
    ELSE None

\* The model names tasks are created with: one of openai_models, one of
\* openrouter_models only, and one that is in no list.
Models == { <<"gpt-4o">>, <<"google", "gemini-pro-1.5">>, <<"no-such-model">> }

\* The model names get_provider_for_model is asked for: names of each list,
\* names that are found under a prefix only, and names in no list.
ModelNames ==
    Models \cup
    { <<"o1">>, <<"claude-3-opus-20240229">>, <<"claude-3-opus">>,
      <<"claude-3-5-sonnet">>, <<"openai", "gpt-4o">>,
      <<"anthropic", "claude-3-5-sonnet">>, <<"gemini-pro-1.5">>, <<"grok-beta">>,
      <<"mistralai", "mistral-large">>, <<"openai", "no-such-model">> }

\* get_available_models() with the providers P configured: the keys of
\* _model_to_provider_map after _build_model_map.
get_available_models(P) ==
    OpenRouterModels
    \cup { IF OPENAI \in P THEN <<m>> ELSE <<"openai", m>> : m \in OpenAIModels }
    \cup { IF ANTHROPIC \in P THEN <<m>> ELSE <<"anthropic", SimpleName(m)>> :
             m \in AnthropicModels }

\* The names get_available_models returns under some configuration.
ListedNames == UNION { get_available_models(P) : P \in SUBSET ProviderTypes }

\* provider_registry.get_provider_for_model on the names of ModelNames and
\* the listed names, for every set of configured providers.
Resolution ==
    [P \in SUBSET ProviderTypes, model \in ModelNames \cup ListedNames |->
        get_provider_for_model(P, model)]

\* str(e) of `raise Exception(f"No provider available for model: ...")`
NoProviderError == "No provider available for model"

\* The executor coroutine is context 0; context t > 0 is the caller of
\* create_response(background=False) that created task t.
Executor == 0
Contexts == 0..MaxTasks

VARIABLES
    manager,        \* the class of the manager
    providers,      \* provider_registry._providers: the configured types
    tasks,          \* self.tasks: task id -> BackgroundTask (ids are 1..Len)
    queue,          \* self._queue
    ctx,            \* per coroutine: where it is suspended and its locals
    executions,     \* history: how often _execute_task was entered per task
    background,     \* history: the background argument a task was created with
    cancelled_while, \* history: the status cancel_response found and replaced
    raised,         \* history: the exception the provider call or the usage
                    \* extraction of a task raised
    readers,        \* the stream_response generators and what they yielded
    clock,          \* the time of the system clock
    session,        \* a provider's aiohttp session and the calls made on it
    stats           \* history: <<>> until get_generation_stats returned for
                    \* the task, then <<r>> with r what it returned

vars == <<manager, providers, tasks, queue, ctx, executions, background, cancelled_while,
          raised, readers, clock, session, stats>>

\* time.time(), and a timestamp that is None: <<>> is None, <<n>> is n.
time_time == <<clock>>
NoTime == <<>>

\* task.usage and task.reasoning that are None; a present one is <<value>>.
NoUsage == <<>>
NoReasoning == <<>>

\* The content of a message is a JSON string (kind "str", text its
\* characters) or a JSON array (kind "list", text its items).
Str(text) == [kind |-> "str", text |-> text]
List(items) == [kind |-> "list", text |-> items]

\* The input argument of create_response: the messages of the request.
Input == <<[role |-> "user", content |-> Str(<<"h", "i">>)]>>

\* BackgroundTask(id, QUEUED, ...) after __post_init__
NewTask ==
    [ status |-> QUEUED,
      created_at |-> time_time,
      started_at |-> NoTime,
      completed_at |-> NoTime,
      output_text |-> NoText,
      output |-> NoOutput,
      error |-> None,
      usage |-> NoUsage,
      openrouter_generation_id |-> None,
      stream_cursor |-> 0,
      model |-> <<"gpt-4o">>,
      input |-> Input,
      reasoning |-> NoReasoning,
      stream_events |-> <<>> ]

\* A coroutine that executes nothing. provider is the provider the manager
\* with a registry resolved for the task, messages the converted_messages of
\* AnthropicProvider.create_completion. skips is history: the
\* sequence_number the provider had reached at each line it skipped.
Resting(pc) ==
    [ pc |-> pc, task |-> 0, content_buffer |-> <<>>, sequence_number |-> 0,
      generation_id |-> None, skips |-> <<>>, step |-> 0, provider |-> None,
      messages |-> <<>> ]

\* A coroutine inside _execute_task(task), suspended at pc.
Running(pc, t) == [Resting(pc) EXCEPT !.task = t]

ExecPcs == {"ws_start", "ws_step", "post", "lines", "stats", "ws_complete", "ws_error"}

\* A stream_response generator that was not called yet. pending is what is
\* left of the slice its for loop iterates; yielded and opened_on (the status
\* the call found) are history.
NoReader ==
    [ pc |-> "closed", task |-> 0, after |-> <<>>, pending |-> <<>>,
      last_count |-> 0, yielded |-> <<>>, opened_on |-> None ]

\* Mutant: the slice ignores where it starts.
PySliceFrom_whole(seq, start) == seq

\* seq[start:] of Python
PySliceFrom(seq, start) ==
    LET n == Len(seq)
        from == IF start < 0 THEN (IF n + start < 0 THEN 0 ELSE n + start)
                ELSE (IF start > n THEN n ELSE start)
    IN SubSeq(seq, from + 1, n)

\* ''.join(content_buffer)
RECURSIVE Join(_)
Join(buf) == IF buf = <<>> THEN <<>> ELSE Head(buf) \o Join(Tail(buf))

\* ------------------------------------------------- writes to a task record

\* task.status = IN_PROGRESS; task.started_at = time.time()
MarkStarted(tk) == [tk EXCEPT !.status = IN_PROGRESS, !.started_at = time_time]

\* task.status = COMPLETED; task.completed_at = time.time()
MarkCompleted(tk) == [tk EXCEPT !.status = COMPLETED, !.completed_at = time_time]

\* Mutant: a failure is marked without its cause.
MarkFailed_silent(tk, e) ==
    [tk EXCEPT !.status = FAILED, !.completed_at = time_time]

\* except Exception as e: status = FAILED, error = str(e), completed_at
MarkFailed(tk, e) ==
    [tk EXCEPT !.status = FAILED, !.error = e, !.completed_at = time_time]

\* except asyncio.CancelledError: task.status = CANCELLED; raise
MarkInterrupted(tk) == [tk EXCEPT !.status = CANCELLED]

\* cancel_response on the task it found
cancel_response(tk) ==
    IF tk.status \in {QUEUED, IN_PROGRESS}
    THEN [tk EXCEPT !.status = CANCELLED, !.completed_at = time_time]
    ELSE tk

\* Mutant: a provider stopped by cancellation drops what it had buffered.
Finalize_discard(tk, content_buffer) ==
    IF tk.status = CANCELLED
    THEN [tk EXCEPT !.output_text = <<>>,
                    !.output = [role |-> "assistant", text |-> <<>>]]
    ELSE [tk EXCEPT !.output_text = Join(content_buffer),
                    !.output = [role |-> "assistant", text |-> Join(content_buffer)]]

\* The provider after its line loop: output_text and output.
Finalize(tk, content_buffer) ==
    [tk EXCEPT !.output_text = Join(content_buffer),
               !.output = [role |-> "assistant", text |-> Join(content_buffer)]]

\* The sequence number the provider gives the event after one numbered n.
NextSequenceNumber(n) == n + 1

\* Mutant: a skipped line consumes a sequence number.
AfterSkippedLine_numbered(cx) ==
    [cx EXCEPT !.skips = Append(@, cx.sequence_number),
               !.sequence_number = @ + 1]

\* The provider's locals after a line that is no data line or fails to parse:
\* nothing is appended and no number is consumed.
AfterSkippedLine(cx) ==
    [cx EXCEPT !.skips = Append(@, cx.sequence_number)]

\* The provider's locals after a well-formed data line.
AfterEvent(cx, data) ==
    [cx EXCEPT !.generation_id =
                   IF data.id # None /\ @ = None THEN data.id ELSE @,
               !.content_buffer =
                   IF data.content # NoText THEN Append(@, data.content) ELSE @,
               !.sequence_number = NextSequenceNumber(@)]

\* Mutant: the provider keeps only the latest event.
AppendEvent_replaces(events, n, data) ==
    IF events = <<>>
    THEN <<[sequence_number |-> n, data |-> data]>>
    ELSE [events EXCEPT ![Len(events)] = [sequence_number |-> n, data |-> data]]

\* task.stream_events after the provider stored one more event
AppendEvent(events, n, data) ==
    Append(events, [sequence_number |-> n, data |-> data])

\* The task after a well-formed data line.
StoreEvent(tk, cx, data) ==
    [tk EXCEPT !.openrouter_generation_id =
                   IF data.id # None /\ cx.generation_id = None THEN data.id ELSE @,
               !.stream_events = AppendEvent(@, cx.sequence_number, data)]

\* The request payload is built: `payload["reasoning"] = task.reasoning or
\* {...}` binds the task's own object when it has one, and
\* `payload["reasoning"]["summary"] = "auto"` then writes into it. The
\* manager with a registry only passes the object on.
PreparePayload(tk) ==
    IF manager = "registry" \/ tk.reasoning = NoReasoning
    THEN tk
    ELSE [tk EXCEPT !.reasoning = <<[@[1] EXCEPT !.summary = "auto"]>>]

\* --------------------------------------------------------- usage extraction

\* `if stats:` is false for None and for the empty object.
Truthy(got) == got # <<>> /\ got[1] # EmptyStats

\* usage.update(stats['usage']) raises TypeError when the value is null.
Raises(p) == p.usage.kind = "null"

\* usage = {'prompt_tokens': stats.get('tokens_prompt', 0), ...}
InitialUsage(p) ==
    [ prompt_tokens |-> Get(p.tokens_prompt, 0),
      completion_tokens |-> Get(p.tokens_completion, 0),
      total_tokens |-> Get(p.total_cost, 0),
      reasoning_tokens |-> 0 ]

\* if 'usage' in stats: usage.update(stats['usage'])
Overlay(u, p) ==
    [u EXCEPT !.prompt_tokens = Get(p.usage.prompt_tokens, @),
              !.reasoning_tokens = Get(p.usage.reasoning_tokens, @)]

\* if 'completion_tokens_details' in stats['usage']: ...
FromUsageDetails(u, p) ==
    [u EXCEPT !.reasoning_tokens = Get(p.usage.details_reasoning_tokens, @)]

\* Mutant: only the direct field of native_tokens_details is read.
FromNative_direct(u, p) ==
    [u EXCEPT !.reasoning_tokens = Get(p.native_reasoning_tokens, @)]

\* if 'native_tokens_details' in stats: the reasoning_tokens of the details
\* if they have the key, elif their completion_tokens_details has it, that.
FromNative(u, p) ==
    IF p.native_reasoning_tokens # <<>>
    THEN [u EXCEPT !.reasoning_tokens = p.native_reasoning_tokens[1]]
    ELSE [u EXCEPT !.reasoning_tokens = Get(p.native_details_reasoning_tokens, @)]

\* if 'reasoning_tokens' in stats: ...
FromTopLevel(u, p) ==
    [u EXCEPT !.reasoning_tokens = Get(p.reasoning_tokens, @)]

\* _extract_usage_from_stats(stats), and the same statements inline in
\* BackgroundTaskManager._execute_task.
ExtractUsage(p) ==
    FromTopLevel(FromNative(FromUsageDetails(Overlay(InitialUsage(p), p), p), p), p)

\* --------------------------------------------------------- provider session

\* A provider after __init__: self.session is None. current is
\* self.session (<<>> is None, <<i>> the i-th ClientSession constructed),
\* closed the sessions close() was called on, closing the stop() calls
\* suspended in `await self.session.close()`; starts (the calls of start)
\* and used (the sessions requests were posted on) are history.
NoSession ==
    [ current |-> <<>>, created |-> 0, closed |-> {}, closing |-> 0,
      starts |-> 0, used |-> {} ]

\* Mutant: start opens a session whether or not one is open.
EnsureSession_fresh(sn) ==
    [sn EXCEPT !.current = <<sn.created + 1>>, !.created = @ + 1]

\* if not self.session: self.session = aiohttp.ClientSession()
EnsureSession(sn) ==
    IF sn.current = <<>>
    THEN [sn EXCEPT !.current = <<sn.created + 1>>, !.created = @ + 1]
    ELSE sn

\* ------------------------------------------------------------ control flow

\* _task_executor: ids taken off the queue whose task is CANCELLED are
\* dropped; the result is the queue from the first id that is executed.
RECURSIVE SkipCancelled(_, _)
SkipCancelled(q, T) ==
    IF q = <<>> THEN <<>>
    ELSE IF T[Head(q)].status = CANCELLED THEN SkipCancelled(Tail(q), T)
    ELSE q

\* Mutant: the executor spawns the execution and goes on pulling.
ExecutorContext_spawn(t) == t

\* The coroutine in which the executor runs the task it pulled:
\* `await self._execute_task(task)` runs it in the executor itself.
ExecutorContext(t) == Executor

\* Mutant: create_response queues the id also when it executes it itself.
QueueAfterCreate_always(q, t, bg) == Append(q, t)

\* Mutant: the queue hands out the newest id first.
QueueAfterCreate_stack(q, t, bg) == IF bg THEN <<t>> \o q ELSE q

\* self._queue after create_response(background) stored task t
QueueAfterCreate(q, t, bg) == IF bg THEN Append(q, t) ELSE q

\* EnhancedBackgroundTaskManager finds no provider for the model of task tk.
Unresolved(tk) ==
    /\ manager = "registry"
    /\ Resolution[providers, tk.model] = None

\* ------------------------------------------------ Anthropic message format

\* '\n\n'
Separator == <<"\n", "\n">>

\* The message _validate_message_sequence puts first when the first one is
\* not of the user.
UserPreamble ==
    [ role |-> "user", text |-> Str(<<"Please respond to the following:">>),
      src |-> 0 ]

\* The loop of _convert_messages from message i on: the messages that are
\* not of the system, as {'role', 'content': [{'type': 'text', 'text'}]}. The
\* text of a converted message is the content object of input message src.
RECURSIVE ConvertFrom(_, _)
ConvertFrom(messages, i) ==
    IF i > Len(messages) THEN <<>>
    ELSE IF messages[i].role = "system" THEN ConvertFrom(messages, i + 1)
    ELSE << [ role |-> messages[i].role, text |-> messages[i].content,
              src |-> i ] >> \o ConvertFrom(messages, i + 1)

\* last_msg['content'][0]['text'] += '\n\n' + msg['content'][0]['text']:
\* '\n\n' + a list raises TypeError; a str += str binds a new string; a
\* list += str extends the list object, which is the content of the input
\* message, by the characters of the string.
MergeInto(st, msg) ==
    LET n == Len(st.validated)
        last == st.validated[n]
    IN IF msg.text.kind = "list"
       THEN [st EXCEPT !.raised = TRUE]
       ELSE LET sum == [last.text EXCEPT !.text = @ \o Separator \o msg.text.text]
            IN [st EXCEPT !.validated[n].text = sum,
                          !.input = IF last.text.kind = "list"
                                    THEN [@ EXCEPT ![last.src].content = sum]
                                    ELSE @]

\* The loop of _validate_message_sequence from message i on.
RECURSIVE ValidateFrom(_, _, _)
ValidateFrom(messages, i, st) ==
    IF i > Len(messages) \/ st.raised THEN st
    ELSE LET msg == messages[i] IN
         ValidateFrom(messages, i + 1,
             IF <<msg.role>> = st.last_role
             THEN IF st.validated # <<>> THEN MergeInto(st, msg) ELSE st
             ELSE [st EXCEPT !.validated = Append(@, msg),
                             !.last_role = <<msg.role>>])

\* _validate_message_sequence(messages), where input is the list the texts
\* of the messages belong to.
validate_message_sequence(messages, input) ==
    LET st == ValidateFrom(messages, 1,
                  [ validated |-> <<>>, last_role |-> <<>>, input |-> input,
                    raised |-> FALSE ])
    IN IF ~st.raised /\ st.validated # <<>> /\ st.validated[1].role # "user"
       THEN [st EXCEPT !.validated = <<UserPreamble>> \o @]
       ELSE st

\* _convert_messages(messages): the converted messages, the input list after
\* the call, and whether the call raised ('\n\n'.join(system_parts) raises
\* TypeError on a part that is no string).
convert_messages(messages) ==
    LET st == validate_message_sequence(ConvertFrom(messages, 1), messages)
    IN [ messages |-> [i \in 1..Len(st.validated) |->
                          [ role |-> st.validated[i].role,
                            text |-> st.validated[i].text ]],
         input |-> st.input,
         raised |-> \/ st.raised
                    \/ \E i \in 1..Len(messages) :
                          /\ messages[i].role = "system"
                          /\ messages[i].content.kind = "list" ]

\* AnthropicProvider.create_completion raises before its request.
ConvertFails(tk) ==
    /\ manager = "registry"
    /\ Resolution[providers, tk.model] = ANTHROPIC
    /\ convert_messages(tk.input).raised

\* The task after AnthropicProvider converted its messages.
Converted(tk) == [tk EXCEPT !.input = convert_messages(tk.input).input]

\* EnhancedBackgroundTaskManager._execute_task on a task for whose model it
\* finds no provider: it marks the task started, raises and handles it.
FailUnresolved(tk) == MarkFailed(MarkStarted(tk), NoProviderError)

\* _execute_task on a task whose messages AnthropicProvider fails to convert.
FailConvert(tk) == MarkFailed(Converted(PreparePayload(MarkStarted(tk))), "TypeError")

\* The executor's loop over the ids it can take without suspending: it
\* drops the cancelled ones and executes those without a provider, which
\* fail at once. Gives the store, the executions and the queue from the
\* first id whose execution suspends.
RECURSIVE Pull(_, _, _)
Pull(q, T, E) ==
    LET r == SkipCancelled(q, T) IN
    IF r = <<>> THEN [queue |-> <<>>, tasks |-> T, executions |-> E]
    ELSE IF Unresolved(T[Head(r)])
    THEN Pull(Tail(r), [T EXCEPT ![Head(r)] = FailUnresolved(@)],
              [E EXCEPT ![Head(r)] = @ + 1])
    ELSE IF ConvertFails(T[Head(r)])
    THEN Pull(Tail(r), [T EXCEPT ![Head(r)] = FailConvert(@)],
              [E EXCEPT ![Head(r)] = @ + 1])
    ELSE [queue |-> r, tasks |-> T, executions |-> E]

\* self._execute_task(task) from its call to its first suspension, in
\* coroutine c, with store T, queue q, coroutines C and executions E.
Enter(c, t, T, q, C, E) ==
    /\ queue' = q
    /\ executions' = [E EXCEPT ![t] = @ + 1]
    /\ IF manager = "ws"
       THEN \* await self.ws_manager.broadcast(reasoning_start)
            /\ tasks' = T
            /\ ctx' = [C EXCEPT ![c] = Running("ws_start", t)]
       ELSE IF Unresolved(T[t])
       THEN \* status = IN_PROGRESS ... raise Exception("No provider ..."):
            \* caught by the handler, and _execute_task returns
            /\ tasks' = [T EXCEPT ![t] = FailUnresolved(@)]
            /\ ctx' = [C EXCEPT ![c] =
                          Resting(IF c = Executor THEN "idle" ELSE "returned")]
       ELSE IF ConvertFails(T[t])
       THEN \* _convert_messages raises: caught by the same handler
            /\ tasks' = [T EXCEPT ![t] = FailConvert(@)]
            /\ ctx' = [C EXCEPT ![c] =
                          Resting(IF c = Executor THEN "idle" ELSE "returned")]
       ELSE IF manager = "registry" /\ Resolution[providers, T[t].model] = ANTHROPIC
       THEN \* _convert_messages(...) ... async with self.session.post(...)
            /\ tasks' = [T EXCEPT ![t] = Converted(PreparePayload(MarkStarted(@)))]
            /\ ctx' = [C EXCEPT ![c] =
                          [Running("post", t) EXCEPT
                               !.provider = ANTHROPIC,
                               !.messages = convert_messages(T[t].input).messages]]
       ELSE \* ... async with self.session.post(...)
            /\ tasks' = [T EXCEPT ![t] = PreparePayload(MarkStarted(@))]
            /\ ctx' = [C EXCEPT ![c] =
                          [Running("post", t) EXCEPT !.provider =
                               IF manager = "registry"
                               THEN Resolution[providers, T[t].model] ELSE None]]

\* The executor's loop from `await self._queue.get()` on: get() does not
\* suspend while the queue holds an id.
ExecutorLoop(T, q) ==
    LET p == Pull(q, T, executions)
        r == p.queue
    IN IF r = <<>>
       THEN /\ tasks' = p.tasks
            /\ queue' = <<>>
            /\ ctx' = [ctx EXCEPT ![Executor] = Resting("idle")]
            /\ executions' = p.executions
       ELSE Enter(ExecutorContext(Head(r)), Head(r), p.tasks, Tail(r),
                  [ctx EXCEPT ![Executor] = Resting("idle")], p.executions)

\* Mutant: a failed execution raises through the executor's loop and ends it.
Leave_propagates(c, T) ==
    IF c = Executor /\ T[ctx[c].task].status = FAILED
    THEN /\ tasks' = T
         /\ ctx' = [ctx EXCEPT ![Executor] = Resting("stopped")]
         /\ UNCHANGED <<queue, executions>>
    ELSE IF c = Executor
    THEN ExecutorLoop(T, queue)
    ELSE /\ tasks' = T
         /\ ctx' = [ctx EXCEPT ![c] = Resting("returned")]
         /\ UNCHANGED <<queue, executions>>

\* _execute_task returned or raised into its caller, with store T.
Leave(c, T) ==
    IF c = Executor
    THEN ExecutorLoop(T, queue)
    ELSE /\ tasks' = T
         /\ ctx' = [ctx EXCEPT ![c] = Resting("returned")]
         /\ UNCHANGED <<queue, executions>>

\* BackgroundTaskManager._execute_task returned, with store T: to the
\* executor or caller, or to EnhancedTaskManager._execute_task, which then
\* broadcasts reasoning_complete.
BaseReturn(c, T) ==
    IF manager = "ws"
    THEN /\ tasks' = T
         /\ ctx' = [ctx EXCEPT ![c] = Running("ws_complete", ctx[c].task)]
         /\ UNCHANGED <<queue, executions>>
    ELSE Leave(c, T)

\* Mutant: the stats are asked for whether or not an id was captured.
AfterDrain_always(c, T) ==
    LET t == ctx[c].task IN
    /\ tasks' = T
    /\ ctx' = [ctx EXCEPT ![c] =
                  [Running("stats", t) EXCEPT !.provider = ctx[c].provider]]
    /\ UNCHANGED <<queue, executions>>

\* The provider's generator is exhausted, with store T.
AfterDrain(c, T) ==
    LET t == ctx[c].task IN
    IF T[t].openrouter_generation_id # None
    THEN \* await asyncio.sleep(1); await get_generation_stats(...)
         /\ tasks' = T
         /\ ctx' = [ctx EXCEPT ![c] =
                       [Running("stats", t) EXCEPT !.provider = ctx[c].provider]]
         /\ UNCHANGED <<queue, executions>>
    ELSE BaseReturn(c, [T EXCEPT ![t] = MarkCompleted(@)])

\* ----------------------------------------------------------------- actions

\* A manager after __init__: no task, nothing queued, no executor.
Constructed ==
    /\ tasks = <<>>
    /\ queue = <<>>
    /\ ctx = [c \in Contexts |-> IF c = Executor THEN Resting("unstarted")
                                               ELSE Resting("none")]
    /\ executions = [t \in 1..MaxTasks |-> 0]
    /\ background = [t \in 1..MaxTasks |-> FALSE]
    /\ cancelled_while = [t \in 1..MaxTasks |-> None]
    /\ raised = [t \in 1..MaxTasks |-> None]
    /\ readers = [r \in 1..MaxReaders |-> NoReader]
    /\ clock = 0
    /\ session = NoSession
    /\ stats = [t \in 1..MaxTasks |-> <<>>]

\* BackgroundTaskManager(provider) or EnhancedTaskManager(provider, ws_manager)
Init ==
    /\ manager \in Managers
    /\ providers = {}
    /\ Constructed

\* start(): creates the executor, which waits at self._queue.get().
Start ==
    /\ ctx[Executor].pc = "unstarted"
    /\ ctx' = [ctx EXCEPT ![Executor] = Resting("idle")]
    /\ UNCHANGED <<manager, providers, clock, session, stats, readers, tasks, queue, executions, background, cancelled_while, raised>>

\* create_response(model, input, background) storing the new task tk
Create(bg, tk) ==
    /\ Len(tasks) < MaxTasks
    /\ LET t == Len(tasks) + 1
           T == Append(tasks, tk)
       IN /\ background' = [background EXCEPT ![t] = bg]
          /\ IF bg
             THEN /\ tasks' = T
                  /\ queue' = QueueAfterCreate(queue, t, bg)
                  /\ UNCHANGED <<ctx, executions>>
             ELSE Enter(t, t, T, QueueAfterCreate(queue, t, bg), ctx, executions)
    /\ UNCHANGED <<manager, providers, clock, session, stats, readers, cancelled_while, raised>>

\* create_response(model, input, background) on a manager with one provider
CreateResponse(bg) == Create(bg, NewTask)

\* cancel_response(response_id): on an id that is not stored it returns None.
CancelResponse(t) ==
    /\ tasks' = IF t \in DOMAIN tasks
                THEN [tasks EXCEPT ![t] = cancel_response(@)]
                ELSE tasks
    /\ cancelled_while' =
           IF /\ t \in DOMAIN tasks
              /\ tasks[t].status \in {QUEUED, IN_PROGRESS}
              /\ cancelled_while[t] = None
           THEN [cancelled_while EXCEPT ![t] = tasks[t].status]
           ELSE cancelled_while
    /\ UNCHANGED <<manager, providers, clock, session, stats, readers, queue, ctx, executions, background, raised>>

\* The executor, waiting at get() on an empty queue, is woken by a put.
Dequeue ==
    /\ ctx[Executor].pc = "idle"
    /\ queue # <<>>
    /\ ExecutorLoop(tasks, queue)
    /\ UNCHANGED <<manager, providers, clock, session, stats, readers, background, cancelled_while, raised>>

\* The broadcasts and the sleep of EnhancedTaskManager._execute_task before
\* the provider call return or raise. One suspension stands for the two
\* broadcasts and the sleep of one reasoning step: nothing of the task is read
\* or written between them.
WsResume(c) ==
    /\ ctx[c].pc \in {"ws_start", "ws_step"}
    /\ \E fails \in BOOLEAN :
         LET t == ctx[c].task
             T == IF ctx[c].pc = "ws_start"
                  THEN [tasks EXCEPT ![t] = MarkStarted(@)]
                  ELSE tasks
             i == IF ctx[c].pc = "ws_start" THEN 0 ELSE ctx[c].step + 1
         IN IF fails
            THEN \* except Exception: await broadcast(error)
                 /\ ctx' = [ctx EXCEPT ![c] = Running("ws_error", t)]
                 /\ UNCHANGED tasks
            ELSE IF i < NumReasoningSteps /\ T[t].status # CANCELLED
            THEN /\ tasks' = T
                 /\ ctx' = [ctx EXCEPT ![c] = [Running("ws_step", t) EXCEPT !.step = i]]
            ELSE \* await super()._execute_task(task)
                 /\ tasks' = [T EXCEPT ![t] = PreparePayload(MarkStarted(@))]
                 /\ ctx' = [ctx EXCEPT ![c] = Running("post", t)]
    /\ UNCHANGED <<manager, providers, clock, session, stats, readers, queue, executions, background, cancelled_while, raised>>

\* The backend answers the POST of create_completion.
HttpResponse(c) ==
    /\ ctx[c].pc = "post"
    /\ \E ok \in BOOLEAN :
         LET t == ctx[c].task IN
         IF ok
         THEN /\ ctx' = [ctx EXCEPT ![c].pc = "lines"]
              /\ UNCHANGED <<tasks, queue, executions, raised>>
         ELSE \* raise Exception(f"API Error {response.status}: {error_text}")
              /\ raised' = [raised EXCEPT ![t] = "API Error"]
              /\ BaseReturn(c, [tasks EXCEPT ![t] = MarkFailed(@, "API Error")])
    /\ UNCHANGED <<manager, providers, clock, session, stats, readers, background, cancelled_while>>

\* The events stored in all event logs.
RECURSIVE CountEvents(_)
CountEvents(T) ==
    IF T = <<>> THEN 0 ELSE Len(Head(T).stream_events) + CountEvents(Tail(T))
EventsStored == CountEvents(tasks)

\* `async for line in response.content` delivers a line of one of the
\* kinds K, ends or raises.
ReceiveFrom(c, K) ==
    /\ ctx[c].pc = "lines"
    /\ \E kind \in K :
       \E data \in IF kind = "event" THEN DataSet ELSE {CHOOSE d \in DataSet : TRUE} :
         LET t == ctx[c].task
             cx == ctx[c]
         IN /\ kind = "event" => EventsStored < MaxEvents
            /\ kind \in {"skip", "bad"} => Len(cx.skips) < MaxSkipped
            /\ raised' = IF kind = "error" THEN [raised EXCEPT ![t] = "stream error"]
                         ELSE IF kind = "garbled" /\ tasks[t].status # CANCELLED
                         THEN [raised EXCEPT ![t] = "line error"]
                         ELSE raised
            /\ IF kind = "error"
               THEN \* the transport raises: except Exception in _execute_task
                    BaseReturn(c, [tasks EXCEPT ![t] = MarkFailed(@, "stream error")])
               ELSE IF kind \in {"eof", "done"} \/ tasks[t].status = CANCELLED
               THEN \* the loop ends, or breaks at [DONE] or at the cancel check
                    AfterDrain(c, [tasks EXCEPT ![t] = Finalize(@, cx.content_buffer)])
               ELSE IF kind = "garbled"
               THEN \* line.decode('utf-8') raises UnicodeDecodeError, or the
                    \* JSON value is no object and `'id' in data` raises
                    \* TypeError: neither is a JSONDecodeError
                    BaseReturn(c, [tasks EXCEPT ![t] = MarkFailed(@, "line error")])
               ELSE IF kind \in {"skip", "bad"}
               THEN \* no data line: continue; JSONDecodeError: logged
                    /\ ctx' = [ctx EXCEPT ![c] = AfterSkippedLine(cx)]
                    /\ UNCHANGED <<tasks, queue, executions>>
               ELSE /\ tasks' = [tasks EXCEPT ![t] = StoreEvent(@, cx, data)]
                    /\ ctx' = [ctx EXCEPT ![c] = AfterEvent(cx, data)]
                    /\ UNCHANGED <<queue, executions>>
    /\ UNCHANGED <<manager, providers, clock, session, stats, readers, background, cancelled_while>>

\* A line arrives whose bytes are decoded and parsed as far as the JSON text.
ReceiveLine(c) == ReceiveFrom(c, LineKinds)

\* The payload get_generation_stats returned for task t, if it returned one.
HasPayload(t) == stats[t] # <<>> /\ stats[t][1] # <<>>
PayloadOf(t) == stats[t][1][1]

\* get_generation_stats returns one of the results S and the usage is
\* extracted from it.
StatsFrom(c, S) ==
    /\ ctx[c].pc = "stats"
    /\ \E got \in S :
         LET t == ctx[c].task IN
         /\ stats' = [stats EXCEPT ![t] = <<got>>]
         /\ IF Truthy(got) /\ Raises(got[1])
            THEN \* the extraction raises: except Exception in _execute_task
                 /\ raised' = [raised EXCEPT ![t] = "stats error"]
                 /\ BaseReturn(c, [tasks EXCEPT ![t] = MarkFailed(@, "stats error")])
            ELSE /\ raised' = raised
                 /\ BaseReturn(c, [tasks EXCEPT ![t] =
                        MarkCompleted(IF Truthy(got)
                                      THEN [@ EXCEPT !.usage = <<ExtractUsage(got[1])>>]
                                      ELSE @)])
    /\ UNCHANGED <<manager, providers, clock, session, readers, background, cancelled_while>>

\* get_generation_stats returns, with a payload that is not looked into.
StatsResult(c) == StatsFrom(c, StatsOutcomes)

\* The reasoning_complete broadcast of EnhancedTaskManager returns or raises.
WsComplete(c) ==
    /\ ctx[c].pc = "ws_complete"
    /\ \E fails \in BOOLEAN :
         IF fails
         THEN /\ ctx' = [ctx EXCEPT ![c] = Running("ws_error", ctx[c].task)]
              /\ UNCHANGED <<tasks, queue, executions>>
         ELSE Leave(c, tasks)
    /\ UNCHANGED <<manager, providers, clock, session, stats, readers, background, cancelled_while, raised>>

\* The error broadcast of EnhancedTaskManager's handler returns, and the
\* task is marked FAILED, or raises out of _execute_task.
WsError(c) ==
    /\ ctx[c].pc = "ws_error"
    /\ \E fails \in BOOLEAN :
         IF fails
         THEN Leave(c, tasks)
         ELSE Leave(c, [tasks EXCEPT ![ctx[c].task] = MarkFailed(@, "broadcast error")])
    /\ UNCHANGED <<manager, providers, clock, session, stats, readers, background, cancelled_while, raised>>

\* stop(): the executor gets CancelledError where it is suspended. Only the
\* handler of BackgroundTaskManager._execute_task catches it.
Stop ==
    /\ ctx[Executor].pc \notin {"unstarted", "stopped"}
    /\ tasks' = IF ctx[Executor].pc \in {"post", "lines", "stats"}
                THEN [tasks EXCEPT ![ctx[Executor].task] = MarkInterrupted(@)]
                ELSE tasks
    /\ ctx' = [ctx EXCEPT ![Executor] = Resting("stopped")]
    /\ UNCHANGED <<manager, providers, clock, session, stats, readers, queue, executions, background, cancelled_while, raised>>

Next ==
    \/ Start
    \/ \E bg \in BOOLEAN : CreateResponse(bg)
    \/ \E t \in 1..MaxTasks : CancelResponse(t)
    \/ Dequeue
    \/ \E c \in Contexts : WsResume(c)
    \/ \E c \in Contexts : HttpResponse(c)
    \/ \E c \in Contexts : ReceiveLine(c)
    \/ \E c \in Contexts : StatsResult(c)
    \/ \E c \in Contexts : WsComplete(c)
    \/ \E c \in Contexts : WsError(c)
    \/ Stop

Spec == Init /\ [][Next]_vars

\* --------------------------------------------------------- stream_response

\* A generator suspended where it yields the next event of its slice.
YieldNext(rd, pc) ==
    [rd EXCEPT !.pc = pc, !.yielded = Append(@, Head(rd.pending)),
               !.pending = Tail(@)]

\* `while task.status in [QUEUED, IN_PROGRESS]: await asyncio.sleep(0.1)`:
\* the generator sleeps or its sequence ends.
PollOrEnd(rd, tk) ==
    IF tk.status \in {QUEUED, IN_PROGRESS}
    THEN [rd EXCEPT !.pc = "sleep"]
    ELSE [rd EXCEPT !.pc = "ended"]

\* After the historical replay: last_count is taken only if the task is
\* still running.
AfterReplay(rd, tk) ==
    IF tk.status \in {QUEUED, IN_PROGRESS}
    THEN PollOrEnd([rd EXCEPT !.last_count = Len(tk.stream_events)], tk)
    ELSE [rd EXCEPT !.pc = "ended"]

\* After the last yield of a polling batch: last_count = len(stream_events).
AfterBatch(rd, tk) ==
    PollOrEnd([rd EXCEPT !.last_count = Len(tk.stream_events)], tk)

\* Mutant: the generator keeps its position in task.stream_cursor.
TasksAfterYield_cursor(T, rd) ==
    IF rd.task \in DOMAIN T
    THEN [T EXCEPT ![rd.task].stream_cursor = Len(rd.yielded)]
    ELSE T

\* self.tasks after a step of a stream_response generator that is now rd:
\* the generator reads task.status and task.stream_events and writes nothing.
TasksAfterYield(T, rd) == T

\* stream_response(response_id, starting_after) up to its first yield.
OpenStream(r, t, after) ==
    /\ readers[r].pc = "closed"
    /\ LET start_idx == IF after # <<>> THEN after[1] + 1 ELSE 0
           rd == [NoReader EXCEPT !.task = t, !.after = after]
       IN readers' = [readers EXCEPT ![r] =
              IF t \notin DOMAIN tasks
              THEN \* if not task: return
                   [rd EXCEPT !.pc = "ended"]
              ELSE LET tk == tasks[t]
                       op == [rd EXCEPT !.opened_on = tk.status,
                                        !.pending = PySliceFrom(tk.stream_events, start_idx)]
                   IN IF op.pending # <<>> THEN YieldNext(op, "replay")
                      ELSE AfterReplay(op, tk)]
    /\ tasks' = TasksAfterYield(tasks, readers'[r])
    /\ UNCHANGED <<manager, providers, clock, session, stats, queue, ctx, executions, background,
                   cancelled_while, raised>>

\* The consumer asks a generator suspended at a yield for the next event.
ResumeStream(r) ==
    /\ readers[r].pc \in {"replay", "batch"}
    /\ LET rd == readers[r]
           tk == tasks[rd.task]
       IN readers' = [readers EXCEPT ![r] =
              IF rd.pending # <<>> THEN YieldNext(rd, rd.pc)
              ELSE IF rd.pc = "replay" THEN AfterReplay(rd, tk)
              ELSE AfterBatch(rd, tk)]
    /\ tasks' = TasksAfterYield(tasks, readers'[r])
    /\ UNCHANGED <<manager, providers, clock, session, stats, queue, ctx, executions, background,
                   cancelled_while, raised>>

\* asyncio.sleep(0.1) of the polling loop is over.
PollStream(r) ==
    /\ readers[r].pc = "sleep"
    /\ LET rd == readers[r]
           tk == tasks[rd.task]
       IN readers' = [readers EXCEPT ![r] =
              IF Len(tk.stream_events) > rd.last_count
              THEN YieldNext([rd EXCEPT !.pending =
                                  PySliceFrom(tk.stream_events, rd.last_count)],
                             "batch")
              ELSE PollOrEnd(rd, tk)]
    /\ tasks' = TasksAfterYield(tasks, readers'[r])
    /\ UNCHANGED <<manager, providers, clock, session, stats, queue, ctx, executions, background,
                   cancelled_while, raised>>

\* retrieve_response(response_id): returns self.tasks.get(response_id).
RetrieveResponse(t) ==
    /\ t \in 1..MaxTasks
    /\ UNCHANGED vars

\* create_response while generators read.
CreateStreamed(bg) ==
    /\ Len(tasks) < MaxStreamTasks
    /\ CreateResponse(bg)

\* The operations of BackgroundTaskManager with its readers.
NextStream ==
    \/ Start
    \/ \E bg \in BOOLEAN : CreateStreamed(bg)
    \/ \E t \in 1..MaxTasks : CancelResponse(t)
    \/ Dequeue
    \/ \E c \in Contexts : HttpResponse(c)
    \/ \E c \in Contexts : ReceiveLine(c)
    \/ \E c \in Contexts : StatsResult(c)
    \/ Stop
    \/ \E r \in 1..MaxReaders, t \in 1..MaxTasks, after \in StartingAfter :
           OpenStream(r, t, after)
    \/ \E r \in 1..MaxReaders : ResumeStream(r)
    \/ \E r \in 1..MaxReaders : PollStream(r)
    \/ \E t \in 1..MaxTasks : RetrieveResponse(t)

InitStream ==
    /\ Init
    /\ manager = "base"

StreamSpec == InitStream /\ [][NextStream]_vars

\* ------------------------------------------------------------------ claims

\* The coroutines that are inside _execute_task.
InFlight == {c \in Contexts : ctx[c].pc \in ExecPcs}

\* The status changes of the executor's state machine.
AllowedTransitions ==
    { <<QUEUED, IN_PROGRESS>>, <<IN_PROGRESS, COMPLETED>>, <<IN_PROGRESS, FAILED>>,
      <<IN_PROGRESS, CANCELLED>>, <<QUEUED, CANCELLED>> }

\* C1: a task that cancel_response cancelled while it was in progress has
\* status cancelled in every later state.
C1_CancelledInProgressStaysCancelled ==
    \A t \in DOMAIN tasks :
        cancelled_while[t] = IN_PROGRESS => tasks[t].status = CANCELLED

\* C2: every step leaves a task's status as it is or moves it along one of
\* the allowed transitions; a terminal status is never left.
C2_StatusFollowsStateMachine ==
    [][\A t \in DOMAIN tasks :
          \/ tasks'[t].status = tasks[t].status
          \/ <<tasks[t].status, tasks'[t].status>> \in AllowedTransitions]_vars

\* C3: a task that cancel_response cancelled while it was queued is never in
\* progress afterwards.
C3_CancelledQueuedNeverInProgress ==
    \A t \in DOMAIN tasks :
        cancelled_while[t] = QUEUED => tasks[t].status # IN_PROGRESS

\* C4: completed_at is set exactly for the tasks whose status is terminal.
C4_CompletedAtIffTerminal ==
    \A t \in DOMAIN tasks :
        tasks[t].completed_at # NoTime <=> tasks[t].status \in Terminal

\* C5: the i-th entry (from 0) of every event log has sequence_number i.
C5_SequenceNumbersAreIndices ==
    \A t \in DOMAIN tasks :
        \A i \in 1..Len(tasks[t].stream_events) :
            tasks[t].stream_events[i].sequence_number = i - 1

\* C5 witness: a provider skipped a line after its first event and stored an
\* event after the skipped line.
C5_Witness ==
    \E c \in Contexts :
        /\ ctx[c].pc = "lines"
        /\ ctx[c].skips # <<>>
        /\ ctx[c].skips[1] >= 1
        /\ Len(tasks[ctx[c].task].stream_events) > ctx[c].skips[1]

\* C7: _execute_task is entered at most once per task, and at most one
\* coroutine is inside it for a task at any time.
C7_AtMostOneExecutionPerTask ==
    \A t \in 1..MaxTasks :
        /\ executions[t] <= 1
        /\ Cardinality({c \in InFlight : ctx[c].task = t}) <= 1

\* C7 witness: the provider call of a queued task raised, the task failed
\* after one execution and the executor is back waiting at the queue.
C7_Witness ==
    \E t \in DOMAIN tasks :
        /\ background[t]
        /\ raised[t] # None
        /\ tasks[t].status = FAILED
        /\ executions[t] = 1
        /\ ctx[Executor].pc = "idle"

\* C8 as stated: at most one execution is in flight across all tasks.
C8_AtMostOneExecutionInFlight == Cardinality(InFlight) <= 1

\* C8 amended: at most one execution of a task created with background=true
\* is in flight.
C8_AtMostOneBackgroundExecutionInFlight ==
    Cardinality({c \in InFlight : background[ctx[c].task]}) <= 1

\* C8 witness: the executor is executing a task while another task created
\* with background=true waits in the queue.
C8_Witness ==
    /\ ctx[Executor].pc \in {"post", "lines", "stats"}
    /\ background[ctx[Executor].task]
    /\ queue # <<>>
    /\ tasks[Head(queue)].status = QUEUED

\* C9: an exception raised by the provider call or the usage extraction of a
\* task leaves the task failed with the error recorded, and the executor
\* ends only by stop().
C9_FailureRecordedExecutorContinues ==
    /\ [](\A t \in DOMAIN tasks :
             raised[t] # None =>
                 tasks[t].status = FAILED /\ tasks[t].error # None)
    /\ [][(ctx[Executor].pc # "stopped" /\ ctx'[Executor].pc = "stopped") => Stop]_vars

\* C9 witness: a queued task failed and a task queued behind it was executed
\* to completion.
C9_Witness ==
    \E t, u \in DOMAIN tasks :
        /\ t < u
        /\ background[t] /\ background[u]
        /\ raised[t] # None
        /\ executions[u] = 1
        /\ tasks[u].status = COMPLETED

\* s is an initial part of t.
IsPrefix(s, t) == Len(s) <= Len(t) /\ SubSeq(t, 1, Len(s)) = s

\* C6: every step leaves every event log as it is or appends to it.
C6_EventLogAppendOnly ==
    [][\A t \in DOMAIN tasks :
          IsPrefix(tasks[t].stream_events, tasks'[t].stream_events)]_vars

\* C6 witness: a provider stored two events, the task was cancelled, and a
\* generator replayed from the log.
C6_Witness ==
    \E r \in 1..MaxReaders :
        /\ readers[r].yielded # <<>>
        /\ Len(tasks[readers[r].task].stream_events) = 2
        /\ cancelled_while[readers[r].task] = IN_PROGRESS

\* The events of a log whose index (from 0) is greater than the cursor.
EventsAfter(events, after) ==
    SubSeq(events, (IF after = <<>> THEN 0 ELSE after[1] + 1) + 1, Len(events))

\* C10: a generator opened on a task that was queued or in progress has, when
\* its sequence ends, yielded the events of the log after its cursor, each
\* once and in order.
C10_EndedReaderYieldedWholeLog ==
    \A r \in 1..MaxReaders :
        (readers[r].pc = "ended" /\ readers[r].opened_on \in {QUEUED, IN_PROGRESS})
            => readers[r].yielded =
                   EventsAfter(tasks[readers[r].task].stream_events, readers[r].after)

\* ------------------------------------------- readers of either manager, fair

\* stream_response on a manager of either class.
OpenWatched(r, t, after) ==
    /\ r <= MaxWatchers
    /\ OpenStream(r, t, after)

\* The operations of BackgroundTaskManager and EnhancedTaskManager with a
\* generator reading.
NextWatched ==
    \/ Start
    \/ \E bg \in BOOLEAN : CreateStreamed(bg)
    \/ \E t \in 1..MaxTasks : CancelResponse(t)
    \/ Dequeue
    \/ \E c \in Contexts : WsResume(c)
    \/ \E c \in Contexts : HttpResponse(c)
    \/ \E c \in Contexts : ReceiveLine(c)
    \/ \E c \in Contexts : StatsResult(c)
    \/ \E c \in Contexts : WsComplete(c)
    \/ \E c \in Contexts : WsError(c)
    \/ Stop
    \/ \E r \in 1..MaxReaders, t \in 1..MaxTasks, after \in StartingAfter :
           OpenWatched(r, t, after)
    \/ \E r \in 1..MaxReaders : ResumeStream(r)
    \/ \E r \in 1..MaxReaders : PollStream(r)

\* The event loop runs every coroutine that is ready: asyncio.sleep(0.1) of a
\* polling generator returns, a consumer iterating a generator asks for the
\* next event, the executor is woken by a put, and the broadcasts and sleeps
\* of EnhancedTaskManager return. No backend is assumed to answer and nobody
\* is assumed to call stop() or cancel_response.
Fairness ==
    /\ \A r \in 1..MaxReaders : WF_vars(PollStream(r)) /\ WF_vars(ResumeStream(r))
    /\ WF_vars(Dequeue)
    /\ \A c \in Contexts : WF_vars(WsResume(c)) /\ WF_vars(WsComplete(c)) /\ WF_vars(WsError(c))

WatchedSpec == Init /\ [][NextWatched]_vars /\ Fairness

C12_SameCursorSameSequence ==
    \A r, q \in 1..MaxReaders :
        ( /\ readers[r].pc = "ended" /\ readers[q].pc = "ended"
          /\ readers[r].opened_on # None /\ readers[q].opened_on # None
          /\ readers[r].task = readers[q].task
          /\ readers[r].after = readers[q].after )
        => readers[r].yielded = readers[q].yielded

\* ------------------------------------------------- replay with any cursor

\* The starting_after arguments of a replay: the query parameter is any
\* integer or absent.
ReplayCursors == {<<>>, <<-3>>, <<-2>>, <<-1>>, <<0>>, <<1>>, <<2>>}

\* stream_response with a cursor of ReplayCursors.
OpenReplay(r, t, after) ==
    /\ r <= MaxWatchers
    /\ OpenStream(r, t, after)

\* The operations of BackgroundTaskManager with a generator replaying.
NextReplay ==
    \/ Start
    \/ \E bg \in BOOLEAN : CreateStreamed(bg)
    \/ \E t \in 1..MaxTasks : CancelResponse(t)
    \/ Dequeue
    \/ \E c \in Contexts : HttpResponse(c)
    \/ \E c \in Contexts : ReceiveLine(c)
    \/ \E c \in Contexts : StatsResult(c)
    \/ Stop
    \/ \E r \in 1..MaxReaders, t \in 1..MaxTasks, after \in ReplayCursors :
           OpenReplay(r, t, after)
    \/ \E r \in 1..MaxReaders : ResumeStream(r)
    \/ \E r \in 1..MaxReaders : PollStream(r)

ReplaySpec == InitStream /\ [][NextReplay]_vars

\* The entries of a log whose index (from 0) is after+1 or above.
EntriesAbove(events, after) ==
    LET first == IF after = <<>> THEN 0 ELSE after[1] + 1
    IN SubSeq(events, (IF first < 0 THEN 0 ELSE first) + 1, Len(events))

\* The last k entries of a log, all of them if it has fewer.
LastEntries(events, k) ==
    SubSeq(events, (IF k > Len(events) THEN 0 ELSE Len(events) - k) + 1, Len(events))

\* What a generator opened on a terminal task has yielded and is still to
\* yield from its replay.
Replayed(rd) == rd.yielded \o rd.pending

\* C13 as stated: a generator opened on a task whose status was terminal
\* yields exactly the log entries with index after+1 and above and then ends,
\* and a generator opened on an unknown id ends having yielded nothing.
C13_TerminalReplayIsEntriesAbove ==
    \A r \in 1..MaxReaders :
        /\ readers[r].opened_on \in Terminal =>
               /\ readers[r].pc \in {"replay", "ended"}
               /\ Replayed(readers[r]) =
                      EntriesAbove(tasks[readers[r].task].stream_events, readers[r].after)
        /\ (readers[r].pc # "closed" /\ readers[r].opened_on = None) =>
               readers[r].pc = "ended" /\ readers[r].yielded = <<>>

\* C13 amended: the same for a cursor that is absent or at least -1; with a
\* cursor below -1 the generator yields the last -(after+1) entries of the
\* log (all of them if the log has fewer).
C13_TerminalReplayIsSlice ==
    \A r \in 1..MaxReaders :
        /\ readers[r].opened_on \in Terminal =>
               /\ readers[r].pc \in {"replay", "ended"}
               /\ Replayed(readers[r]) =
                      LET events == tasks[readers[r].task].stream_events
                          after == readers[r].after
                      IN IF after = <<>> \/ after[1] >= -1
                         THEN EntriesAbove(events, after)
                         ELSE LastEntries(events, 0 - (after[1] + 1))
        /\ (readers[r].pc # "closed" /\ readers[r].opened_on = None) =>
               readers[r].pc = "ended" /\ readers[r].yielded = <<>>

\* C13 witness: a generator opened with cursor 0 on a terminal task with two
\* events ended after yielding the second event only.
C13_Witness ==
    \E r \in 1..MaxReaders :
        /\ readers[r].pc = "ended"
        /\ readers[r].opened_on \in Terminal
        /\ readers[r].after = <<0>>
        /\ Len(tasks[readers[r].task].stream_events) = 2
        /\ readers[r].yielded = <<tasks[readers[r].task].stream_events[2]>>

\* C14: a step of a stream_response generator (and retrieve_response, which
\* is no step at all) leaves every task, the queue and every coroutine of
\* the manager as they are, and leaves every other generator as it is.
C14_ReadersChangeNothing ==
    [][\A r \in 1..MaxReaders :
          readers'[r] # readers[r] =>
              /\ UNCHANGED <<tasks, queue, ctx, executions>>
              /\ \A q \in 1..MaxReaders \ {r} : readers'[q] = readers[q]]_vars

\* C14 witness: two generators are open on the same task, both have yielded
\* an event, and the task is still being executed.
C14_Witness ==
    \E r, q \in 1..MaxReaders :
        /\ r # q
        /\ readers[r].task = readers[q].task
        /\ readers[r].pc \in {"replay", "batch", "sleep"}
        /\ readers[q].pc \in {"replay", "batch", "sleep"}
        /\ readers[r].yielded # <<>> /\ readers[q].yielded # <<>>
        /\ \E c \in InFlight : ctx[c].task = readers[r].task

\* C15: a task whose status is failed has its error recorded and no output.
C15_FailedHasErrorAndNoOutput ==
    \A t \in DOMAIN tasks :
        tasks[t].status = FAILED =>
            /\ tasks[t].error # None
            /\ tasks[t].output = NoOutput
            /\ tasks[t].output_text = NoText

\* C16: the error of a task is recorded exactly while its status is failed.
C16_ErrorIffFailed ==
    \A t \in DOMAIN tasks :
        tasks[t].error # None <=> tasks[t].status = FAILED

\* C16 witness: one task failed when its backend refused the request, and
\* another task was cancelled while in progress and then ran to its end.
C16_Witness ==
    \E t, u \in DOMAIN tasks :
        /\ tasks[t].status = FAILED /\ raised[t] = "API Error"
        /\ cancelled_while[u] = IN_PROGRESS
        /\ tasks[u].status \in {COMPLETED, CANCELLED}
        /\ tasks[u].output_text # NoText

\* The concatenation of the content fragments of the events of a log.
RECURSIVE ContentOf(_)
ContentOf(events) ==
    IF events = <<>> THEN <<>>
    ELSE (IF Head(events).data.content # NoText THEN Head(events).data.content ELSE <<>>)
         \o ContentOf(Tail(events))

\* C17: a provider that receives a line (or the end of the response) while
\* its task is cancelled leaves its loop without raising and without storing
\* an event, and sets output_text to the concatenated content of the events
\* in the log; an output_text that was set is not changed afterwards.
C17_CancelObservedKeepsPartialOutput ==
    [][/\ \A c \in Contexts :
            ( /\ ctx[c].pc = "lines"
              /\ tasks[ctx[c].task].status = CANCELLED
              /\ ctx'[c] # ctx[c]
              /\ raised' = raised
              /\ ctx'[c].pc # "stopped" )
            => LET t == ctx[c].task
               IN /\ tasks'[t].stream_events = tasks[t].stream_events
                  /\ tasks'[t].output_text = ContentOf(tasks[t].stream_events)
                  /\ tasks'[t].status # FAILED
       /\ \A u \in DOMAIN tasks :
            tasks[u].output_text # NoText =>
                tasks'[u].output_text = tasks[u].output_text]_vars

\* C17 witness: a task was cancelled while its provider had stored an event
\* with content and one without, and the provider has set output_text to the
\* content of the first.
C17_Witness ==
    \E t \in DOMAIN tasks :
        /\ cancelled_while[t] = IN_PROGRESS
        /\ Len(tasks[t].stream_events) = 2
        /\ tasks[t].stream_events[1].data.content = <<"h", "i">>
        /\ tasks[t].stream_events[2].data.content = NoText
        /\ tasks[t].output_text = <<"h", "i">>
        /\ raised[t] = None

\* C18: once cancel_response has cancelled a task, no event is appended to
\* the task's log.
C18_NoAppendAfterCancel ==
    [][\A t \in DOMAIN tasks :
          cancelled_while[t] # None =>
              tasks'[t].stream_events = tasks[t].stream_events]_vars

\* ------------------------------------------------ the manager with registry

\* create_response(model, input, background) of EnhancedBackgroundTaskManager
CreateForModel(bg, model) == Create(bg, [NewTask EXCEPT !.model = model])

\* The operations of EnhancedBackgroundTaskManager.
NextRegistry ==
    \/ Start
    \/ \E bg \in BOOLEAN, model \in Models : CreateForModel(bg, model)
    \/ \E t \in 1..MaxTasks : CancelResponse(t)
    \/ Dequeue
    \/ \E c \in Contexts : HttpResponse(c)
    \/ \E c \in Contexts : ReceiveLine(c)
    \/ \E c \in Contexts : StatsResult(c)
    \/ Stop

\* EnhancedBackgroundTaskManager() over a registry built from the API keys
\* of the environment.
InitRegistry ==
    /\ manager = "registry"
    /\ providers \in SUBSET ProviderTypes
    /\ Constructed

\* The application starts the manager, the event loop runs the executor when
\* the queue holds an id, and the backends answer.
RegistryFairness ==
    /\ WF_vars(Start)
    /\ WF_vars(Dequeue)
    /\ \A c \in Contexts :
           WF_vars(HttpResponse(c)) /\ WF_vars(ReceiveLine(c)) /\ WF_vars(StatsResult(c))

RegistrySpec == InitRegistry /\ [][NextRegistry]_vars /\ RegistryFairness

\* C19: a task for whose model the registry finds no provider is never
\* marked as started: its status is never in_progress and its started_at is
\* never set.
C19_UnresolvedNeverStarted ==
    \A t \in DOMAIN tasks :
        get_provider_for_model(providers, tasks[t].model) = None =>
            /\ tasks[t].status # IN_PROGRESS
            /\ tasks[t].started_at = NoTime

\* The model name has an entry in the table, as it is or under a prefix.
Registered(P, model) ==
    \/ ModelToProviderMap(P, model) # None
    \/ \E i \in 1..Len(Prefixes) : ModelToProviderMap(P, <<Prefixes[i]>> \o model) # None

\* C20: a task created with a model name that is not registered eventually
\* is failed with the error of the missing provider, whatever providers are
\* configured, unless it is cancelled or the manager is stopped first.
C20_UnregisteredEventuallyFails ==
    \A t \in 1..MaxTasks :
        [](( /\ t \in DOMAIN tasks
             /\ ~Registered(providers, tasks[t].model) )
           => <>( /\ t \in DOMAIN tasks
                  /\ \/ tasks[t].status = FAILED /\ tasks[t].error = NoProviderError
                     \/ cancelled_while[t] # None
                     \/ ctx[Executor].pc = "stopped" ))

\* --------------------------------------------------- resolving a provider

\* create_response of EnhancedBackgroundTaskManager for any of the names.
CreateNamed(bg, model) ==
    /\ Len(tasks) < MaxStreamTasks
    /\ CreateForModel(bg, model)

\* One task of any name on the manager with a registry.
NextResolve ==
    \/ Start
    \/ \E bg \in BOOLEAN, model \in ModelNames : CreateNamed(bg, model)
    \/ Dequeue
    \/ \E c \in Contexts : HttpResponse(c)
    \/ \E c \in Contexts : ReceiveLine(c)
    \/ \E c \in Contexts : StatsResult(c)

ResolveSpec == InitRegistry /\ [][NextResolve]_vars

\* The prefixes under which the table has an entry of a configured provider.
ConfiguredUnderPrefix(P, model) ==
    { i \in 1..Len(Prefixes) : ModelToProviderMap(P, <<Prefixes[i]>> \o model) \in P }

\* C21: the provider an execution resolved for its task's model is
\* configured; it is the provider of the exact table entry if that one is
\* configured, otherwise that of the first prefixed entry with a configured
\* provider, otherwise OpenRouter if configured; and exactly the tasks for
\* which none of these exists fail without a provider.
C21_ResolutionOrder ==
    /\ \A c \in Contexts :
          ctx[c].pc \in {"post", "lines", "stats"} =>
              LET model == tasks[ctx[c].task].model
                  exact == ModelToProviderMap(providers, model)
                  hits == ConfiguredUnderPrefix(providers, model)
                  r == ctx[c].provider
              IN /\ r \in providers
                 /\ exact \in providers => r = exact
                 /\ exact \notin providers /\ hits # {} =>
                        \E i \in hits :
                            /\ \A j \in hits : i <= j
                            /\ r = ModelToProviderMap(providers, <<Prefixes[i]>> \o model)
                 /\ exact \notin providers /\ hits = {} => r = OPENROUTER
    /\ \A t \in DOMAIN tasks :
          executions[t] > 0 =>
              ( tasks[t].error = NoProviderError
                <=> /\ ModelToProviderMap(providers, tasks[t].model) \notin providers
                    /\ ConfiguredUnderPrefix(providers, tasks[t].model) = {}
                    /\ OPENROUTER \notin providers )

\* C21 witness: a name in no list runs on the fallback, and a name found
\* under a prefix only (with OpenAI configured too) runs on OpenRouter.
C21_Witness ==
    \E c \in Contexts :
        /\ ctx[c].pc = "lines"
        /\ providers = {OPENAI, OPENROUTER}
        /\ tasks[ctx[c].task].model = <<"gemini-pro-1.5">>
        /\ ctx[c].provider = OPENROUTER

\* ------------------------------------------- payloads built and received

\* The reasoning arguments of create_response: None, an object without the
\* key summary, and one with it.
Reasonings ==
    { NoReasoning,
      <<[effort |-> "low", summary |-> None]>>,
      <<[effort |-> "low", summary |-> "detailed"]>> }

\* create_response(model, input, reasoning, background)
CreateConfigured(bg, reasoning) ==
    /\ Len(tasks) < MaxStreamTasks
    /\ Create(bg, [NewTask EXCEPT !.reasoning = reasoning])

\* get_generation_stats returns None or any of the payloads.
StatsAny(c) == StatsFrom(c, {<<>>} \cup {<<p>> : p \in StatsPayloads})

\* One task with any reasoning argument, whose stats are any payload.
NextPayload ==
    \/ Start
    \/ \E bg \in BOOLEAN, reasoning \in Reasonings : CreateConfigured(bg, reasoning)
    \/ Dequeue
    \/ \E c \in Contexts : HttpResponse(c)
    \/ \E c \in Contexts : ReceiveLine(c)
    \/ \E c \in Contexts : StatsAny(c)

\* BackgroundTaskManager(provider), or EnhancedBackgroundTaskManager() with
\* the key of OpenRouter in the environment.
InitPayload ==
    /\ manager \in {"base", "registry"}
    /\ providers = IF manager = "registry" THEN {OPENROUTER} ELSE {}
    /\ Constructed

PayloadSpec == InitPayload /\ [][NextPayload]_vars

\* The four fields of a payload the claim lists, in its order.
ReasoningFields(p) ==
    << p.usage.details_reasoning_tokens, p.native_reasoning_tokens,
       p.native_details_reasoning_tokens, p.reasoning_tokens >>

\* C22: the reasoning_tokens of a usage extracted from a payload that has
\* one of the four fields is the value of the last of them that is present.
C22_LastPresentFieldWins ==
    \A t \in DOMAIN tasks :
        HasPayload(t) /\ tasks[t].usage # NoUsage =>
            LET fields == ReasoningFields(PayloadOf(t))
                present == {i \in 1..4 : fields[i] # <<>>}
            IN \A i \in present :
                   (\A j \in present : j <= i) =>
                       tasks[t].usage[1].reasoning_tokens = fields[i][1]

\* The payloads whose only reasoning field is
\* native_tokens_details.completion_tokens_details.reasoning_tokens = 37.
OnlyNestedNative(p) ==
    /\ p.native_details_reasoning_tokens = <<37>>
    /\ p.native_reasoning_tokens = <<>>
    /\ p.reasoning_tokens = <<>>
    /\ p.usage.reasoning_tokens = <<>>
    /\ p.usage.details_reasoning_tokens = <<>>

C25_RequestFieldsNeverChange ==
    [][\A t \in DOMAIN tasks :
          /\ t \in DOMAIN tasks'
          /\ tasks'[t].model = tasks[t].model
          /\ tasks'[t].input = tasks[t].input
          /\ tasks'[t].reasoning = tasks[t].reasoning]_vars

\* ----------------------------------------------------- background tasks

\* C24: a task created with background=True is queued with an empty event
\* log and without started_at and completed_at; and once its provider's
\* line loop has ended and its execution has returned, if cancel_response
\* was not applied to it and the manager was not stopped, it is completed
\* and its output_text is the concatenation of the contents of its events.
C24_BackgroundRunsToCompleted ==
    \A t \in DOMAIN tasks :
        background[t] =>
            /\ tasks[t].status = QUEUED =>
                   /\ tasks[t].stream_events = <<>>
                   /\ tasks[t].started_at = NoTime
                   /\ tasks[t].completed_at = NoTime
            /\ ( /\ cancelled_while[t] = None
                 /\ ctx[Executor].pc # "stopped"
                 /\ tasks[t].output_text # NoText
                 /\ \A c \in InFlight : ctx[c].task # t )
               => /\ tasks[t].status = COMPLETED
                  /\ tasks[t].output_text = ContentOf(tasks[t].stream_events)

\* ------------------------------------------------------------ timestamps

\* Time passes between two steps.
Tick ==
    /\ clock < MaxClock
    /\ clock' = clock + 1
    /\ UNCHANGED <<manager, providers, tasks, queue, ctx, executions, background,
                   cancelled_while, raised, readers, session, stats>>

\* One task on either manager, while time passes.
NextClock ==
    \/ Start
    \/ \E bg \in BOOLEAN : CreateStreamed(bg)
    \/ \E t \in 1..MaxTasks : CancelResponse(t)
    \/ Dequeue
    \/ \E c \in Contexts : WsResume(c)
    \/ \E c \in Contexts : HttpResponse(c)
    \/ \E c \in Contexts : ReceiveLine(c)
    \/ \E c \in Contexts : StatsResult(c)
    \/ \E c \in Contexts : WsComplete(c)
    \/ \E c \in Contexts : WsError(c)
    \/ Stop
    \/ Tick

ClockSpec == Init /\ [][NextClock]_vars

\* C26: a started_at or completed_at that is set never changes, and where
\* both are set created_at <= started_at <= completed_at.
C26_TimestampsWrittenOnceAndOrdered ==
    /\ [][\A t \in DOMAIN tasks :
             /\ tasks[t].started_at # NoTime =>
                    tasks'[t].started_at = tasks[t].started_at
             /\ tasks[t].completed_at # NoTime =>
                    tasks'[t].completed_at = tasks[t].completed_at]_vars
    /\ [](\A t \in DOMAIN tasks :
             tasks[t].started_at # NoTime /\ tasks[t].completed_at # NoTime =>
                 /\ tasks[t].created_at[1] <= tasks[t].started_at[1]
                 /\ tasks[t].started_at[1] <= tasks[t].completed_at[1])

\* C29: a step of cancel_response(t) leaves the queue and every other task
\* as they are; on a queued or in-progress task it changes at most status
\* and completed_at; on a terminal task or an unknown id it changes nothing;
\* and on a task that was cancelled before it leaves completed_at as it is.
C29_CancelChangesStatusAndCompletedAtOnly ==
    [][\A t \in 1..MaxTasks :
          CancelResponse(t) =>
              /\ queue' = queue
              /\ ctx' = ctx
              /\ \A u \in DOMAIN tasks : u # t => tasks'[u] = tasks[u]
              /\ t \notin DOMAIN tasks => tasks' = tasks
              /\ t \in DOMAIN tasks =>
                     /\ tasks'[t] = [tasks[t] EXCEPT
                                        !.status = tasks'[t].status,
                                        !.completed_at = tasks'[t].completed_at]
                     /\ tasks[t].status \in Terminal => tasks'[t] = tasks[t]
                     /\ cancelled_while[t] # None =>
                            tasks'[t].completed_at = tasks[t].completed_at]_vars

\* ------------------------------------------------------ provider sessions

\* What the calls on the provider leave alone.
ManagerUnchanged ==
    UNCHANGED <<manager, providers, tasks, queue, ctx, executions, background,
                cancelled_while, raised, readers, clock, stats>>

\* await provider.start()
ProviderStart ==
    /\ session.starts < MaxStarts
    /\ session.current = <<>> => session.created < MaxSessions
    /\ session' = [EnsureSession(session) EXCEPT !.starts = @ + 1]
    /\ ManagerUnchanged

\* provider.stop() up to `await self.session.close()`, or to its end when
\* there is no session.
ProviderStop ==
    /\ IF session.current # <<>>
       THEN /\ session.closing < MaxStops
            /\ session' = [session EXCEPT !.closed = @ \cup {session.current[1]},
                                          !.closing = @ + 1]
       ELSE session' = session
    /\ ManagerUnchanged

\* close() returned to a stop(): self.session = None
ProviderStopReturn ==
    /\ session.closing > 0
    /\ session' = [session EXCEPT !.current = <<>>, !.closing = @ - 1]
    /\ ManagerUnchanged

\* create_completion up to its POST: `if not self.session: await self.start()`
ProviderCreateCompletion ==
    /\ session.current = <<>> => session.created < MaxSessions /\ session.starts < MaxStarts
    /\ LET sn == IF session.current = <<>>
                 THEN [EnsureSession(session) EXCEPT !.starts = @ + 1]
                 ELSE session
       IN session' = [sn EXCEPT !.used = @ \cup {sn.current[1]}]
    /\ ManagerUnchanged

NextProvider ==
    \/ ProviderStart
    \/ ProviderStop
    \/ ProviderStopReturn
    \/ ProviderCreateCompletion

\* A provider that was constructed and handed to a manager.
InitProvider ==
    /\ manager = "base"
    /\ providers = {}
    /\ Constructed

ProviderSpec == InitProvider /\ [][NextProvider]_vars

\* C27: a start on a provider that has a session changes nothing of it; no
\* step puts another session in the place of one that is set, nor constructs
\* a session while one is set; a stop on a provider without session changes
\* nothing.
C27_StartIsIdempotent ==
    [][ /\ ProviderStart /\ session.current # <<>> =>
               session' = [session EXCEPT !.starts = @ + 1]
        /\ session.current # <<>> /\ session'.current # <<>> =>
               session'.current = session.current
        /\ session.current # <<>> => session'.created = session.created
        /\ ProviderStop /\ session.current = <<>> => session' = session ]_vars

\* C27 witness: start was called twice and create_completion once, and the
\* provider has the one session that was ever constructed, still open.
C27_Witness ==
    /\ session.starts = 2
    /\ session.created = 1
    /\ session.current = <<1>>
    /\ session.closed = {}
    /\ session.used = {1}

\* ------------------------------------------------- configuration update

\* POST /config/update of enhanced_app.py: the manager is stopped and the
\* global task_manager is bound to a new EnhancedTaskManager, which is
\* started. The coroutines of the old manager go on writing to its tasks,
\* which nothing reaches any more.
UpdateConfig ==
    /\ manager = "ws"
    /\ tasks' = <<>>
    /\ queue' = <<>>
    /\ ctx' = [c \in Contexts |-> IF c = Executor THEN Resting("idle")
                                                  ELSE Resting("none")]
    /\ executions' = [t \in 1..MaxTasks |-> 0]
    /\ background' = [t \in 1..MaxTasks |-> FALSE]
    /\ cancelled_while' = [t \in 1..MaxTasks |-> None]
    /\ raised' = [t \in 1..MaxTasks |-> None]
    /\ stats' = [t \in 1..MaxTasks |-> <<>>]
    /\ UNCHANGED <<manager, providers, readers, clock, session>>

\* The application of enhanced_app.py: its manager and its endpoints.
NextConfig ==
    \/ Start
    \/ \E bg \in BOOLEAN : CreateStreamed(bg)
    \/ \E t \in 1..MaxTasks : CancelResponse(t)
    \/ Dequeue
    \/ \E c \in Contexts : WsResume(c)
    \/ \E c \in Contexts : HttpResponse(c)
    \/ \E c \in Contexts : ReceiveLine(c)
    \/ \E c \in Contexts : StatsResult(c)
    \/ \E c \in Contexts : WsComplete(c)
    \/ \E c \in Contexts : WsError(c)
    \/ Stop
    \/ \E t \in 1..MaxTasks : RetrieveResponse(t)
    \/ UpdateConfig

InitConfig ==
    /\ Init
    /\ manager = "ws"

ConfigSpec == InitConfig /\ [][NextConfig]_vars

\* task_manager.retrieve_response(response_id): self.tasks.get(response_id)
\* of the store T, <<>> for None.
retrieve_response(T, t) == IF t \in DOMAIN T THEN <<T[t]>> ELSE <<>>

\* C28: a task that retrieve_response returns is returned by it after every
\* step.
C28_StoredTaskStaysRetrievable ==
    [][\A t \in 1..MaxTasks :
          retrieve_response(tasks, t) # <<>> =>
              retrieve_response(tasks', t) # <<>>]_vars

\* ------------------------------------------------------ submission order

\* C30: of two tasks created with background=True, neither cancelled while
\* it was queued, the later one is not started before the execution of the
\* earlier one was entered and has returned.
C30_BackgroundTasksRunInSubmissionOrder ==
    \A a \in DOMAIN tasks, b \in DOMAIN tasks :
        ( /\ a < b
          /\ background[a] /\ background[b]
          /\ cancelled_while[a] # QUEUED /\ cancelled_while[b] # QUEUED
          /\ \/ tasks[b].status = IN_PROGRESS
             \/ executions[b] > 0 )
        => /\ executions[a] > 0
           /\ \A c \in InFlight : ctx[c].task # a

\* C30 witness: the second of two background tasks is in progress after the
\* first one was executed to its end.
C30_Witness ==
    /\ Len(tasks) = 2
    /\ background[1] /\ background[2]
    /\ tasks[1].status = COMPLETED
    /\ tasks[2].status = IN_PROGRESS
    /\ ctx[Executor].task = 2

\* -------------------------------------------------------- a stalled backend

\* C31: in a step in which the coroutine that executes a background task
\* stays suspended in its provider call, no queued background task is
\* executed: it stays queued, or cancel_response cancels it.
C31_StalledCallStallsQueue ==
    [][\A c \in Contexts :
          ( /\ ctx[c].pc \in {"post", "lines"}
            /\ background[ctx[c].task]
            /\ ctx'[c] = ctx[c] )
          => \A b \in DOMAIN tasks :
                 background[b] /\ tasks[b].status = QUEUED =>
                     /\ executions'[b] = executions[b]
                     /\ tasks'[b].status \in {QUEUED, CANCELLED}]_vars

\* C31 witness: the executor waits for a line of a task that cancel_response
\* cancelled meanwhile, and a background task is queued behind it.
C31_Witness ==
    /\ ctx[Executor].pc = "lines"
    /\ Len(tasks) = 2
    /\ ctx[Executor].task = 1
    /\ cancelled_while[1] = IN_PROGRESS
    /\ tasks[1].status = CANCELLED
    /\ background[2]
    /\ tasks[2].status = QUEUED
    /\ queue = <<2>>

\* ------------------------------------------------------- lines of any kind

\* A line of any kind arrives.
ReceiveAny(c) == ReceiveFrom(c, LineKinds \cup UnparsedKinds)

\* One task on BackgroundTaskManager whose backend sends lines of any kind.
NextLine ==
    \/ Start
    \/ \E bg \in BOOLEAN : CreateStreamed(bg)
    \/ \E t \in 1..MaxTasks : CancelResponse(t)
    \/ Dequeue
    \/ \E c \in Contexts : HttpResponse(c)
    \/ \E c \in Contexts : ReceiveAny(c)
    \/ \E c \in Contexts : StatsResult(c)

LineSpec == InitStream /\ [][NextLine]_vars

\* C32: a step that receives a line that does not parse, for a task that is
\* not cancelled, appends no event, consumes no sequence number, leaves the
\* content buffer as it is and does not fail the task.
C32_UnparsedLineIsSkipped ==
    [][\A c \in Contexts :
          ReceiveFrom(c, UnparsedKinds) /\ tasks[ctx[c].task].status # CANCELLED =>
              LET t == ctx[c].task IN
              /\ tasks'[t].stream_events = tasks[t].stream_events
              /\ tasks'[t].status = tasks[t].status
              /\ tasks'[t].error = None
              /\ ctx'[c].pc = "lines"
              /\ ctx'[c].sequence_number = ctx[c].sequence_number
              /\ ctx'[c].content_buffer = ctx[c].content_buffer]_vars

\* ------------------------------------------------------- backend failures

\* C33: a task whose POST was answered with an error status, and that
\* cancel_response did not cancel, is failed with the error of that answer,
\* has no event, and has neither output_text nor output.
C33_HttpErrorFailsTask ==
    \A t \in DOMAIN tasks :
        raised[t] = "API Error" /\ cancelled_while[t] = None =>
            /\ tasks[t].status = FAILED
            /\ tasks[t].error = "API Error"
            /\ tasks[t].stream_events = <<>>
            /\ tasks[t].output_text = NoText
            /\ tasks[t].output = NoOutput

\* C34: get_generation_stats returns for a task only when it had not returned
\* for it before, when the task has a generation id, and after the provider
\* returned (output_text is written after its line loop); when it returns
\* None the task is Completed by that step, without usage and without error.
C34_StatsAskedOnceAfterDrain ==
    [][\A c \in Contexts :
          StatsResult(c) =>
              LET t == ctx[c].task IN
              /\ stats[t] = <<>>
              /\ tasks[t].openrouter_generation_id # None
              /\ tasks[t].output_text # NoText
              /\ \A d \in Contexts \ {c} : ~(ctx[d].task = t /\ ctx[d].pc \in ExecPcs)
              /\ ctx'[c].pc # "stats"
              /\ stats'[t] = << <<>> >> =>
                     /\ tasks'[t].status = COMPLETED
                     /\ tasks'[t].usage = NoUsage
                     /\ tasks'[t].error = None]_vars

\* C34 witness: the stats of a task were asked for and None came back; the
\* task is completed without usage.
C34_Witness ==
    \E t \in DOMAIN tasks :
        /\ stats[t] = << <<>> >>
        /\ tasks[t].openrouter_generation_id # None
        /\ tasks[t].status = COMPLETED
        /\ tasks[t].usage = NoUsage
        /\ tasks[t].error = None

\* C35: the usage extracted from a payload without a `usage` key has
\* prompt_tokens, completion_tokens and total_tokens 0, whatever the other
\* keys of the payload are.
C35_CountsOnlyFromUsageObject ==
    \A t \in DOMAIN tasks :
        /\ HasPayload(t)
        /\ PayloadOf(t).usage = AbsentUsage
        /\ tasks[t].usage # NoUsage
        => /\ tasks[t].usage[1].prompt_tokens = 0
           /\ tasks[t].usage[1].completion_tokens = 0
           /\ tasks[t].usage[1].total_tokens = 0

\* ------------------------------------------------ Anthropic normalisation

\* The messages of a request: any role of the three, a content that is a
\* string or an array.
Roles == {"system", "user", "assistant"}
Messages ==
    [ role : Roles,
      content : {Str(<<"a">>), Str(<<"b">>), List(<<"a">>), List(<<"b">>)} ]
Inputs == UNION { [1..n -> Messages] : n \in 0..MaxMessages }

\* create_response(model="claude-3-opus-20240229", input, background=True)
CreateWithInput(input) ==
    /\ Len(tasks) < MaxStreamTasks
    /\ Create(TRUE, [NewTask EXCEPT !.model = <<"claude-3-opus-20240229">>,
                                    !.input = input])

\* One background task with any input, executed by the Anthropic provider.
NextNormalize ==
    \/ Start
    \/ \E input \in Inputs : CreateWithInput(input)
    \/ \E t \in 1..MaxStreamTasks : CancelResponse(t)
    \/ Dequeue
    \/ \E c \in Contexts : HttpResponse(c)
    \/ \E c \in Contexts : ReceiveLine(c)
    \/ \E c \in Contexts : StatsResult(c)

\* EnhancedBackgroundTaskManager() with the key of Anthropic in the environment.
InitNormalize ==
    /\ manager = "registry"
    /\ providers = {ANTHROPIC}
    /\ Constructed

NormalizeSpec == InitNormalize /\ [][NextNormalize]_vars

\* The concatenation of the sequences of a sequence.
RECURSIVE Concat(_)
Concat(ss) == IF ss = <<>> THEN <<>> ELSE Head(ss) \o Concat(Tail(ss))

\* The texts of the messages of the input that are not of the system, in
\* their order.
InputTexts(input) ==
    LET kept == SelectSeq(input, LAMBDA m : m.role # "system")
    IN Concat([i \in 1..Len(kept) |-> kept[i].content.text])

\* The texts of the converted messages without the separators of a merge
\* and without the message put first.
OutputTexts(out) ==
    LET body == IF out # <<>> /\ out[1].text = UserPreamble.text THEN Tail(out) ELSE out
    IN SelectSeq(Concat([i \in 1..Len(body) |-> body[i].text.text]),
                 LAMBDA x : x # "\n")

\* What the claim says of the converted messages out of the input in.
Normalized(in, out) ==
    /\ \A i \in 1..Len(out) : out[i].role # "system"
    /\ \A i \in 1..(Len(out) - 1) : out[i].role # out[i + 1].role
    /\ (\E i \in 1..Len(in) : in[i].role # "system") =>
           out # <<>> /\ out[1].role = "user"
    /\ OutputTexts(out) = InputTexts(in)

\* C36: when the Anthropic provider has converted the messages of a task
\* and posts its request, the converted messages hold no message of the
\* system, no two neighbours of one role, start with a message of the user
\* if the input has a message that is not of the system, keep the texts of
\* the input in their order, and the input of the task is what it was.
C36_AnthropicMessagesNormalized ==
    [][\A c \in Contexts :
          /\ ctx[c].pc # "post"
          /\ ctx'[c].pc = "post"
          /\ ctx'[c].provider = ANTHROPIC
          /\ ctx'[c].task \in DOMAIN tasks
          => LET t == ctx'[c].task IN
             /\ Normalized(tasks[t].input, ctx'[c].messages)
             /\ tasks'[t].input = tasks[t].input]_vars

\* ------------------------------------------------------- terminal statuses

\* C37: no step changes the status, output_text, output, error or event log
\* of a task that is completed.
C37_CompletedIsFrozen ==
    [][\A t \in DOMAIN tasks :
          tasks[t].status = COMPLETED =>
              /\ tasks'[t].status = COMPLETED
              /\ tasks'[t].output_text = tasks[t].output_text
              /\ tasks'[t].output = tasks[t].output
              /\ tasks'[t].error = tasks[t].error
              /\ tasks'[t].stream_events = tasks[t].stream_events]_vars

\* C38: no step sets a cancelled task back to in_progress, and no step
\* starts the provider's request for a cancelled task.
C38_NoCallAfterCancel ==
    [][\A t \in DOMAIN tasks :
          tasks[t].status = CANCELLED =>
              /\ tasks'[t].status # IN_PROGRESS
              /\ \A c \in Contexts :
                     ctx'[c].task = t /\ ctx'[c].pc = "post" =>
                         ctx[c].task = t /\ ctx[c].pc = "post"]_vars

\* ------------------------------------------------------- available models

\* create_response for a name that get_available_models returns.
CreateListed(bg, model) ==
    /\ Len(tasks) < MaxStreamTasks
    /\ model \in get_available_models(providers)
    /\ CreateForModel(bg, model)

\* One task whose model is one of the available models.
NextListed ==
    \/ Start
    \/ \E bg \in BOOLEAN, model \in ListedNames : CreateListed(bg, model)
    \/ Dequeue
    \/ \E c \in Contexts : HttpResponse(c)
    \/ \E c \in Contexts : ReceiveLine(c)
    \/ \E c \in Contexts : StatsResult(c)

\* EnhancedBackgroundTaskManager() with any set of keys in the environment.
InitListed ==
    /\ manager = "registry"
    /\ providers \in SUBSET ProviderTypes
    /\ Constructed

ListedSpec == InitListed /\ [][NextListed]_vars

\* C39: a model name that get_available_models returns is resolved by
\* get_provider_for_model to a configured provider, so a task created with
\* it does not fail for want of a provider.
C39_AvailableModelsResolve ==
    \A t \in DOMAIN tasks :
        tasks[t].model \in get_available_models(providers) =>
            /\ Resolution[providers, tasks[t].model] \in providers
            /\ tasks[t].error # NoProviderError

\* -------------------------------------------------------------- progress

\* Tasks are created with background=True only.
NextBackground ==
    \/ Start
    \/ CreateResponse(TRUE)
    \/ \E t \in 1..MaxTasks : CancelResponse(t)
    \/ Dequeue
    \/ \E c \in Contexts : WsResume(c)
    \/ \E c \in Contexts : HttpResponse(c)
    \/ \E c \in Contexts : ReceiveLine(c)
    \/ \E c \in Contexts : StatsResult(c)
    \/ \E c \in Contexts : WsComplete(c)
    \/ \E c \in Contexts : WsError(c)
    \/ Stop

\* The application starts the manager, the event loop runs the executor, the
\* backend answers every request and its streams end, and the broadcasts and
\* sleeps of EnhancedTaskManager return. Nobody is assumed to call stop() or
\* cancel_response.
BackgroundFairness ==
    /\ WF_vars(Start)
    /\ WF_vars(Dequeue)
    /\ \A c \in Contexts :
           /\ WF_vars(WsResume(c)) /\ WF_vars(WsComplete(c)) /\ WF_vars(WsError(c))
           /\ WF_vars(HttpResponse(c)) /\ WF_vars(ReceiveLine(c))
           /\ WF_vars(StatsResult(c))

InitBackground ==
    /\ manager \in Managers
    /\ providers = {}
    /\ Constructed

BackgroundSpec == InitBackground /\ [][NextBackground]_vars /\ BackgroundFairness

\* C40: a task created with background=True eventually has a terminal
\* status unless the executor is stopped; and once the executor is stopped,
\* no step executes a task that is still queued: it stays queued, or is
\* cancelled by cancel_response.
C40_BackgroundTasksTerminate ==
    /\ \A t \in 1..MaxTasks :
           [](t \in DOMAIN tasks =>
                 <>(\/ ctx[Executor].pc = "stopped"
                    \/ t \in DOMAIN tasks /\ tasks[t].status \in Terminal))
    /\ [][\A t \in DOMAIN tasks :
             ctx[Executor].pc = "stopped" /\ tasks[t].status = QUEUED =>
                 /\ tasks'[t].status \in {QUEUED, CANCELLED}
                 /\ tasks'[t].status = CANCELLED => CancelResponse(t)
                 /\ executions'[t] = executions[t]]_vars

====
